---------------------------- MODULE Spec2Model ----------------------------
(***************************************************************************)
(* Model of the turn-taking / memory logic of the repository:              *)
(*   - ConversationMemory   (src/verodat/agent_conversation.py)            *)
(*   - SQLChatAgent         (src/langroid/agent/special/sql/               *)
(*                           sql_chat_agent.py)                            *)
(*   - the chainlit callbacks (src/langroid/agent/callbacks/chainlit.py)   *)
(*   - the task loop and the task tree that drive the agents               *)
(*   - ConversationManager.run_conversation and CEOAgent.get_answer        *)
(*                          (src/verodat/agent_conversation.py,            *)
(*                           src/verodat/agent_ceo.py)                     *)
(*   - QdrantDB             (src/langroid/vector_store/qdrantdb.py)        *)
(* Strings are sequences of one-character strings, so that formatting and  *)
(* joining are computed, not assumed.                                      *)
(***************************************************************************)
EXTENDS Integers, Sequences, FiniteSets, TLC

VARIABLES
    insights,       \* ConversationMemory.insights: list of {agent, point}
    max_insights,   \* ConversationMemory.max_insights
    added,          \* history: every insight a successful add_insight appended
    mem_call,       \* history: the last call on the memory and its inputs
    mem_ret,        \* value returned by the last get_context call
    mem_prev_ret,   \* value returned by the get_context call right before it
    mem_raised,     \* exception the last add_insight call raised, or "none"
    config,         \* SQLChatAgent.config, per agent (after construction)
    interactive,    \* ChatAgent.interactive, per agent
    enabled_tools,  \* tools enabled by enable_message, per agent
    llm_responded,  \* SQLChatAgent.llm_responded, per agent
    used_run_query, \* SQLChatAgent.used_run_query, per agent
    message_history,\* ChatAgent.message_history, per agent
    last_turn,      \* history: which of llm_response / user_response ran last
    sql_call,       \* history: the last call on an agent
    sql_ret,        \* value returned by the last call on an agent
    session_log,    \* operations the last run_query performed on its session
    db_outcome,     \* history: what the database did in the last run_query
    sql_raised,     \* exception the last call on an agent let escape, or "none"
    query_since_turn, \* history: run_query ran since the agent's last turn began
    task_phase,     \* task loop: what the loop does next
    task_turns,     \* task loop: LLM turns taken so far
    task_error,     \* task loop: error the run failed with, or "none"
    sub_tasks,      \* Task.sub_tasks, per task: list of tasks
    parent_task,    \* the task that owns a task, or NoTask
    tree_call,      \* history: the last call on the task tree and its outcome
    injected,       \* tasks whose agent has ChainlitAgentCallbacks installed
    inject_order,   \* order in which the last injection visited the tasks
    parent_agent,   \* ChainlitAgentCallbacks.parent_agent, per agent
    last_step,      \* ChainlitAgentCallbacks.last_step, per agent
    stream,         \* ChainlitAgentCallbacks.stream, per agent
    displayed,      \* ids of the steps the UI currently displays
    next_id,        \* number of the next fresh step id
    hide_cot,       \* chainlit config.ui.hide_cot
    cb_call,        \* history: the last callback call and what it displayed
    cb_anchor,      \* history: what _get_parent_id gave in the last call
    cb_hops,        \* history: parent pointers the last call followed
    cb_ret,         \* value the last call returned
    cb_raised,      \* exception the last callback raised, or "none"
    conv_pc,        \* run_conversation: the statement about to execute
    conv_round,     \* run_conversation: the loop variable i
    current_question, \* run_conversation: current_question
    ceo_response,   \* run_conversation: ceo_response
    vp_response,    \* run_conversation: vp_response
    conv_events,    \* history: the steps run_conversation has completed
    conv_call,      \* history: the last collaborator call and its outcome
    conv_error,     \* history: the first exception a collaborator raised
    conv_raised,    \* exception run_conversation raised, or "none"
    main_raised,    \* exception main raised, or "none"
    collections,    \* the Qdrant store: collection name -> info, or absent
    collection_name, \* QdrantDB.config.collection_name
    qd_call,        \* history: the last QdrantDB call and the store before it
    qd_ret,         \* value the last QdrantDB call returned
    qd_raised       \* exception the last QdrantDB call raised, or "none"

mem_vars == <<insights, max_insights, added, mem_call, mem_ret, mem_prev_ret,
              mem_raised>>

sql_vars == <<config, interactive, enabled_tools, llm_responded, used_run_query,
              message_history, last_turn, sql_call, sql_ret, session_log,
              db_outcome, sql_raised, query_since_turn>>

task_vars == <<task_phase, task_turns, task_error>>

tree_vars == <<sub_tasks, parent_task, tree_call, injected, inject_order>>

cb_vars == <<parent_agent, last_step, stream, displayed, next_id, hide_cot,
             cb_call, cb_anchor, cb_hops, cb_ret, cb_raised>>

conv_vars == <<conv_pc, conv_round, current_question, ceo_response,
               vp_response, conv_events, conv_call, conv_error, conv_raised,
               main_raised>>

qd_vars == <<collections, collection_name, qd_call, qd_ret, qd_raised>>

\* the verodat conversation and the vector store
ext_vars == <<conv_vars, qd_vars>>

\* everything but the conversation memory
non_mem_vars == <<sql_vars, task_vars, tree_vars, cb_vars, ext_vars>>

\* everything but the SQL agents and the task loop that drives them
non_sql_vars == <<mem_vars, tree_vars, cb_vars, ext_vars>>

vars == <<insights, max_insights, added, mem_call, mem_ret, mem_prev_ret,
          mem_raised, config, interactive, enabled_tools, llm_responded,
          used_run_query, message_history, last_turn, sql_call, sql_ret,
          session_log, db_outcome, sql_raised, query_since_turn,
          task_phase, task_turns, task_error,
          sub_tasks, parent_task, tree_call, injected, inject_order,
          parent_agent, last_step, stream, displayed, next_id, hide_cot,
          cb_call, cb_anchor, cb_hops, cb_ret, cb_raised,
          conv_pc, conv_round, current_question, ceo_response, vp_response,
          conv_events, conv_call, conv_error, conv_raised, main_raised,
          collections, collection_name, qd_call, qd_ret, qd_raised>>

---------------------------------------------------------------------------
(* Bounds of the model *)

\* largest max_insights a ConversationMemory is constructed with
MaxCap == 2
\* largest number of successful add_insight calls in a run
MaxAdds == 3
\* largest number of points a collection of the vector store holds
MaxPoints == 2
\* largest number of messages an agent's message_history holds in a run
MaxHist == 2
\* largest number of messages per agent when two agents run side by side
MaxHistTwo == 1
\* maximum turn count the task loop is configured with
TurnBudget == 2
\* largest number of UI steps created in a run
MaxSteps == 3

---------------------------------------------------------------------------
(* Strings *)

Max(a, b) == IF a >= b THEN a ELSE b
Min(a, b) == IF a <= b THEN a ELSE b

NL == "\n"

\* the two agent names run_conversation passes to add_insight
AgentNames == { <<"C", "E", "O">>, <<"V", "a", "l", "u", "e", "P", "r", "o", "p">> }

\* raw texts handed to add_insight for summarization
Contents == { <<"r", "a", "w", "1">>, <<"r", "a", "w", "2">> }

\* texts the summarization model can answer with: a word, the empty string,
\* a text that itself ends in a newline
Points == { <<"p">>, <<>>, <<"q", NL>> }

\* what self.client.chat.completions.create does: answers or raises
Responses == [ok : {TRUE}, content : Points, error : {"none"}]
             \cup [ok : {FALSE}, content : {<<>>}, error : {"LLMError", "Timeout"}]

NoValue == <<"<", "n", "o", "n", "e", ">">>

---------------------------------------------------------------------------
(* ConversationMemory *)

\* Python's s[i:] for any integer i
PySliceFrom(s, i) ==
    LET start == IF i < 0 THEN Max(Len(s) + i, 0) ELSE Min(i, Len(s))
    IN  SubSeq(s, start + 1, Len(s))

\* _extract_key_point: the insight built from the model's answer
extract_key_point(agent, content, resp) ==
    [agent |-> agent, point |-> resp.content]

add_insight_raw_fallback(ins, max, agent, content, resp) ==
    LET point == IF resp.ok THEN resp.content ELSE content
        appended == Append(ins, [agent |-> agent, point |-> point])
    IN  [insights |-> IF Len(appended) > max
                      THEN PySliceFrom(appended, -max)
                      ELSE appended,
         raised   |-> "none"]

add_insight_keep_oldest(ins, max, agent, content, resp) ==
    IF ~resp.ok
    THEN [insights |-> ins, raised |-> resp.error]
    ELSE LET appended == Append(ins, extract_key_point(agent, content, resp))
         IN  [insights |-> IF Len(appended) > max
                           THEN SubSeq(appended, 1, max)
                           ELSE appended,
              raised   |-> "none"]

\* add_insight: the buffer and the exception after the call
add_insight(ins, max, agent, content, resp) ==
    IF ~resp.ok
    THEN [insights |-> ins, raised |-> resp.error]
    ELSE LET appended == Append(ins, extract_key_point(agent, content, resp))
         IN  [insights |-> IF Len(appended) > max
                           THEN PySliceFrom(appended, -max)
                           ELSE appended,
              raised   |-> "none"]

\* f"{insight['agent']}: {insight['point']}"
Line(insight) == insight.agent \o <<":", " ">> \o insight.point

RECURSIVE JoinLinesTrailing(_)
JoinLinesTrailing(lines) ==
    IF lines = <<>> THEN <<>>
    ELSE lines[1] \o <<NL>> \o JoinLinesTrailing(Tail(lines))

\* "\n".join(lines)
RECURSIVE JoinLines(_)
JoinLines(lines) ==
    IF lines = <<>> THEN <<>>
    ELSE IF Len(lines) = 1 THEN lines[1]
    ELSE lines[1] \o <<NL>> \o JoinLines(Tail(lines))

get_context(ins) ==
    IF ins = <<>> THEN <<>>
    ELSE JoinLines([i \in 1..Len(ins) |-> Line(ins[i])])

\* ConversationMemory.__init__ with a given max_insights
MemInitWith(caps) ==
    /\ insights = <<>>
    /\ max_insights \in caps
    /\ added = <<>>
    /\ mem_call = [op |-> "init", agent |-> <<>>, content |-> <<>>,
                   resp |-> [ok |-> TRUE, content |-> <<>>, error |-> "none"]]
    /\ mem_ret = NoValue
    /\ mem_prev_ret = NoValue
    /\ mem_raised = "none"

AddInsight ==
    \E agent \in AgentNames, content \in Contents, resp \in Responses :
        /\ Len(added) < MaxAdds
        /\ LET r == add_insight(insights, max_insights, agent, content, resp)
           IN  /\ insights' = r.insights
               /\ mem_raised' = r.raised
        /\ added' = IF resp.ok
                    THEN Append(added, [agent |-> agent, point |-> resp.content])
                    ELSE added
        /\ mem_call' = [op |-> "add_insight", agent |-> agent,
                        content |-> content, resp |-> resp]
        /\ mem_ret' = NoValue
        /\ mem_prev_ret' = NoValue
        /\ UNCHANGED max_insights
        /\ UNCHANGED non_mem_vars

GetContextDraining ==
    /\ mem_ret' = get_context(insights)
    /\ mem_prev_ret' = IF mem_call.op = "get_context" THEN mem_ret ELSE NoValue
    /\ mem_call' = [op |-> "get_context", agent |-> <<>>, content |-> <<>>,
                    resp |-> [ok |-> TRUE, content |-> <<>>, error |-> "none"]]
    /\ mem_raised' = "none"
    /\ insights' = <<>>
    /\ UNCHANGED <<max_insights, added>>
    /\ UNCHANGED non_mem_vars

GetContext ==
    /\ mem_ret' = get_context(insights)
    /\ mem_prev_ret' = IF mem_call.op = "get_context" THEN mem_ret ELSE NoValue
    /\ mem_call' = [op |-> "get_context", agent |-> <<>>, content |-> <<>>,
                    resp |-> [ok |-> TRUE, content |-> <<>>, error |-> "none"]]
    /\ mem_raised' = "none"
    /\ UNCHANGED <<insights, max_insights, added>>
    /\ UNCHANGED non_mem_vars

MemNext == AddInsight \/ GetContext

---------------------------------------------------------------------------
(* SQLChatAgent *)

Agents == {"a1", "a2"}

\* names the tool classes answer to name() with
RunQueryToolName == "run_query"
ForwardToolName == "forward_tool"
DoneToolName == "done_tool"
GetTableNamesToolName == "get_table_names"
GetTableSchemaToolName == "get_table_schema"
GetColumnDescriptionsToolName == "get_column_descriptions"

\* langroid.utils.constants.SEND_TO, the default addressing prefix
SEND_TO == "SEND_TO"

\* addressing_prefix values a SQLChatAgentConfig is given
Prefixes == {"", "@"}

\* SQLChatAgentConfig as handed to the constructor
ConfigInputs ==
    [chat_mode : BOOLEAN, use_schema_tools : BOOLEAN, addressing_prefix : Prefixes]

DefaultConfigInput ==
    [chat_mode |-> FALSE, use_schema_tools |-> FALSE, addressing_prefix |-> ""]

\* ADDRESSING_INSTRUCTION.format(prefix=prefix), as the phrases it is made of
ADDRESSING_INSTRUCTION(prefix) ==
    << "Whenever you are NOT writing a SQL query, address the user using",
       prefix, "User",
       "You MUST use the EXACT syntax", prefix,
       "you ALWAYS write EITHER a SQL query using the tool", RunQueryToolName,
       "OR address the user using", prefix, "User" >>

DONE_INSTRUCTION ==
    << "When you are SURE you have the CORRECT answer use the", DoneToolName,
       "with content set to the answer or result",
       "otherwise you must CONTINUE to improve your queries" >>

\* _format_message
format_message(cfg) ==
    IF cfg.use_schema_tools THEN <<"SCHEMA_TOOLS_SYS_MSG">> ELSE <<"DEFAULT_SYS_MSG">>

\* _enable_schema_tools
enable_schema_tools(tools) ==
    tools \cup {GetTableNamesToolName, GetTableSchemaToolName,
                GetColumnDescriptionsToolName}

init_message_tools_done_always(cfg) ==
    LET prefix == IF cfg.chat_mode
                  THEN (IF cfg.addressing_prefix # "" THEN cfg.addressing_prefix
                        ELSE SEND_TO)
                  ELSE cfg.addressing_prefix
        sysmsg == format_message(cfg)
                  \o <<"DEFAULT_SQL_CHAT_SYSTEM_MESSAGE">>
                  \o (IF cfg.chat_mode THEN ADDRESSING_INSTRUCTION(prefix)
                      ELSE DONE_INSTRUCTION)
        t1 == {RunQueryToolName, ForwardToolName}
        t2 == IF cfg.use_schema_tools THEN enable_schema_tools(t1) ELSE t1
    IN  [config |-> [chat_mode |-> cfg.chat_mode,
                     use_schema_tools |-> cfg.use_schema_tools,
                     addressing_prefix |-> prefix,
                     system_message |-> sysmsg],
         tools  |-> t2 \cup {DoneToolName}]

\* _init_message_tools: the configuration and the enabled tools it leaves
init_message_tools(cfg) ==
    LET prefix == IF cfg.chat_mode
                  THEN (IF cfg.addressing_prefix # "" THEN cfg.addressing_prefix
                        ELSE SEND_TO)
                  ELSE cfg.addressing_prefix
        sysmsg == format_message(cfg)
                  \o <<"DEFAULT_SQL_CHAT_SYSTEM_MESSAGE">>
                  \o (IF cfg.chat_mode THEN ADDRESSING_INSTRUCTION(prefix)
                      ELSE DONE_INSTRUCTION)
        t1 == {RunQueryToolName, ForwardToolName}
        t2 == IF cfg.use_schema_tools THEN enable_schema_tools(t1) ELSE t1
        t3 == IF ~cfg.chat_mode THEN t2 \cup {DoneToolName} ELSE t2
    IN  [config |-> [chat_mode |-> cfg.chat_mode,
                     use_schema_tools |-> cfg.use_schema_tools,
                     addressing_prefix |-> prefix,
                     system_message |-> sysmsg],
         tools  |-> t3]

\* values a call on an agent returns
NoneValue == [kind |-> "None", agent |-> "", text |-> <<>>]
ForwardTool(agent) == [kind |-> "ForwardTool", agent |-> agent, text |-> <<>>]
Str(text) == [kind |-> "str", agent |-> "", text |-> text]
ChatDocument(text) == [kind |-> "ChatDocument", agent |-> "", text |-> text]

\* tools_instruction of handle_message_fallback
tools_instruction(cfg) ==
    << "For example you may want to use the TOOL", RunQueryToolName,
       "to further explore the database contents" >>
    \o (IF cfg.use_schema_tools
        THEN <<"OR you may want to use one of the schema tools">>
        ELSE <<>>)

\* the message handle_message_fallback returns in chat mode
chat_fallback_message_done(cfg) ==
    << "Since you did not explicitly address the User, it is not clear whether",
       "you intend this to be the final response, in which case you must use the",
       DoneToolName,
       "OR, you FORGOT to use an Appropriate TOOL",
       "in which case you should use the available tools" >>
    \o tools_instruction(cfg)

chat_fallback_message(cfg) ==
    << "Since you did not explicitly address the User, it is not clear whether",
       "you intend this to be the final response, in which case you must use the",
       ForwardToolName,
       "OR, you FORGOT to use an Appropriate TOOL",
       "in which case you should use the available tools" >>
    \o tools_instruction(cfg)

\* the message handle_message_fallback returns outside chat mode
task_fallback_message(cfg) ==
    << "The intent of your response is not clear",
       "if you intended this to be the FINAL answer then use the",
       DoneToolName,
       "with the content set to the answer or result",
       "otherwise, use one of the available tools to make progress" >>
    \o tools_instruction(cfg)

handle_message_fallback_swapped(responded, inter, cfg) ==
    IF ~responded THEN NoneValue
    ELSE IF inter THEN ForwardTool("User")
    ELSE IF ~cfg.chat_mode THEN Str(chat_fallback_message(cfg))
    ELSE Str(task_fallback_message(cfg))

handle_message_fallback_chat_first(responded, inter, cfg) ==
    IF ~responded THEN NoneValue
    ELSE IF cfg.chat_mode THEN Str(chat_fallback_message(cfg))
    ELSE IF inter THEN ForwardTool("User")
    ELSE Str(task_fallback_message(cfg))

\* handle_message_fallback: the value returned
handle_message_fallback(responded, inter, cfg) ==
    IF ~responded THEN NoneValue
    ELSE IF inter THEN ForwardTool("User")
    ELSE IF cfg.chat_mode THEN Str(chat_fallback_message(cfg))
    ELSE Str(task_fallback_message(cfg))

\* retry_query
retry_query(cfg) ==
    << "SQL_ERROR_MSG", "Run a new query, correcting the errors." >>
    \o (IF ~cfg.use_schema_tools THEN <<"context_descriptions">> ELSE <<>>)

\* what the database does with a query
QueryOutcomes ==
    {"rows", "no_rows", "non_select", "execute_error", "commit_error", "fetch_error"}

\* run_query with an except clause that misses the errors of execute
run_query_uncaught(cfg, outcome) ==
    CASE outcome = "rows" ->
           [ret |-> Str(<<"rows">>), raised |-> "none",
            log |-> <<"execute", "commit", "fetchall", "close">>]
      [] outcome = "no_rows" ->
           [ret |-> Str(<<"Query executed successfully.">>), raised |-> "none",
            log |-> <<"execute", "commit", "fetchall", "close">>]
      [] outcome = "non_select" ->
           [ret |-> Str(<<"Non-SELECT query executed successfully.", "Rows affected">>),
            raised |-> "none",
            log |-> <<"execute", "commit", "fetchall", "rowcount", "close">>]
      [] outcome = "execute_error" ->
           [ret |-> NoneValue, raised |-> "SQLAlchemyError",
            log |-> <<"execute", "close">>]
      [] outcome = "commit_error" ->
           [ret |-> Str(retry_query(cfg)), raised |-> "none",
            log |-> <<"execute", "commit", "rollback", "close">>]
      [] outcome = "fetch_error" ->
           [ret |-> Str(retry_query(cfg)), raised |-> "none",
            log |-> <<"execute", "commit", "fetchall", "rollback", "close">>]

\* run_query that closes the session at the end of the try block only
run_query_close_in_try(cfg, outcome) ==
    CASE outcome = "rows" ->
           [ret |-> Str(<<"rows">>), raised |-> "none",
            log |-> <<"execute", "commit", "fetchall", "close">>]
      [] outcome = "no_rows" ->
           [ret |-> Str(<<"Query executed successfully.">>), raised |-> "none",
            log |-> <<"execute", "commit", "fetchall", "close">>]
      [] outcome = "non_select" ->
           [ret |-> Str(<<"Non-SELECT query executed successfully.", "Rows affected">>),
            raised |-> "none",
            log |-> <<"execute", "commit", "fetchall", "rowcount", "close">>]
      [] outcome = "execute_error" ->
           [ret |-> Str(retry_query(cfg)), raised |-> "none",
            log |-> <<"execute", "rollback">>]
      [] outcome = "commit_error" ->
           [ret |-> Str(retry_query(cfg)), raised |-> "none",
            log |-> <<"execute", "commit", "rollback">>]
      [] outcome = "fetch_error" ->
           [ret |-> Str(retry_query(cfg)), raised |-> "none",
            log |-> <<"execute", "commit", "fetchall", "rollback">>]

\* run_query: the value returned, the exception that escapes and what was
\* done with the session
run_query(cfg, outcome) ==
    CASE outcome = "rows" ->
           [ret |-> Str(<<"rows">>), raised |-> "none",
            log |-> <<"execute", "commit", "fetchall", "close">>]
      [] outcome = "no_rows" ->
           [ret |-> Str(<<"Query executed successfully.">>), raised |-> "none",
            log |-> <<"execute", "commit", "fetchall", "close">>]
      [] outcome = "non_select" ->
           [ret |-> Str(<<"Non-SELECT query executed successfully.", "Rows affected">>),
            raised |-> "none",
            log |-> <<"execute", "commit", "fetchall", "rowcount", "close">>]
      [] outcome = "execute_error" ->
           [ret |-> Str(retry_query(cfg)), raised |-> "none",
            log |-> <<"execute", "rollback", "close">>]
      [] outcome = "commit_error" ->
           [ret |-> Str(retry_query(cfg)), raised |-> "none",
            log |-> <<"execute", "commit", "rollback", "close">>]
      [] outcome = "fetch_error" ->
           [ret |-> Str(retry_query(cfg)), raised |-> "none",
            log |-> <<"execute", "commit", "fetchall", "rollback", "close">>]

\* kinds of message ChatAgent.llm_response produces
\* (free text, a recognized tool call, tool-like text that does not parse)
LLMMessages == {"text", "tool", "malformed_tool"}

\* SQLChatAgent.__init__ for the agents of `active`, each with any
\* configuration; the other agents are built with the default configuration
SqlInitWith(active) ==
    /\ \E cin \in [Agents -> ConfigInputs] :
          /\ \A a \in Agents \ active : cin[a] = DefaultConfigInput
          /\ config = [a \in Agents |-> init_message_tools(cin[a]).config]
          /\ enabled_tools = [a \in Agents |-> init_message_tools(cin[a]).tools]
    /\ interactive \in [Agents -> BOOLEAN]
    /\ \A a \in Agents \ active : interactive[a] = FALSE
    /\ llm_responded = [a \in Agents |-> FALSE]
    /\ used_run_query = [a \in Agents |-> FALSE]
    /\ message_history = [a \in Agents |-> <<>>]
    /\ last_turn = [a \in Agents |-> "none"]
    /\ sql_call = [op |-> "init", agent |-> ""]
    /\ sql_ret = NoneValue
    /\ session_log = <<>>
    /\ db_outcome = "none"
    /\ sql_raised = "none"
    /\ query_since_turn = [a \in Agents |-> FALSE]

LlmResponseKeepsQueryFlag(a) ==
    \E m \in LLMMessages :
        /\ Len(message_history[a]) < MaxHist
        /\ llm_responded' = [llm_responded EXCEPT ![a] = TRUE]
        /\ message_history' = [message_history EXCEPT ![a] = Append(@, m)]
        /\ last_turn' = [last_turn EXCEPT ![a] = "llm"]
        /\ sql_call' = [op |-> "llm_response", agent |-> a]
        /\ sql_ret' = ChatDocument(<<m>>)
        /\ sql_raised' = "none"
        /\ query_since_turn' = [query_since_turn EXCEPT ![a] = FALSE]
        /\ UNCHANGED <<config, interactive, enabled_tools, session_log,
                       db_outcome, used_run_query>>
        /\ UNCHANGED non_sql_vars

\* the flags assigned on the class instead of on the instance
LlmResponseSharedFlags(a) ==
    \E m \in LLMMessages :
        /\ Len(message_history[a]) < MaxHist
        /\ llm_responded' = [b \in Agents |-> TRUE]
        /\ used_run_query' = [b \in Agents |-> FALSE]
        /\ message_history' = [message_history EXCEPT ![a] = Append(@, m)]
        /\ last_turn' = [last_turn EXCEPT ![a] = "llm"]
        /\ sql_call' = [op |-> "llm_response", agent |-> a]
        /\ sql_ret' = ChatDocument(<<m>>)
        /\ sql_raised' = "none"
        /\ query_since_turn' = [query_since_turn EXCEPT ![a] = FALSE]
        /\ UNCHANGED <<config, interactive, enabled_tools, session_log, db_outcome>>
        /\ UNCHANGED non_sql_vars

LlmResponse(a) ==
    \E m \in LLMMessages :
        /\ Len(message_history[a]) < MaxHist
        /\ llm_responded' = [llm_responded EXCEPT ![a] = TRUE]
        /\ used_run_query' = [used_run_query EXCEPT ![a] = FALSE]
        /\ message_history' = [message_history EXCEPT ![a] = Append(@, m)]
        /\ last_turn' = [last_turn EXCEPT ![a] = "llm"]
        /\ sql_call' = [op |-> "llm_response", agent |-> a]
        /\ sql_ret' = ChatDocument(<<m>>)
        /\ sql_raised' = "none"
        /\ query_since_turn' = [query_since_turn EXCEPT ![a] = FALSE]
        /\ UNCHANGED <<config, interactive, enabled_tools, session_log, db_outcome>>
        /\ UNCHANGED non_sql_vars

UserResponseKeepsFlag(a) ==
    /\ used_run_query' = [used_run_query EXCEPT ![a] = FALSE]
    /\ last_turn' = [last_turn EXCEPT ![a] = "user"]
    /\ sql_call' = [op |-> "user_response", agent |-> a]
    /\ sql_ret' \in {NoneValue, ChatDocument(<<"user">>)}
    /\ sql_raised' = "none"
    /\ query_since_turn' = [query_since_turn EXCEPT ![a] = FALSE]
    /\ UNCHANGED <<config, interactive, enabled_tools, llm_responded,
                   message_history, session_log, db_outcome>>
    /\ UNCHANGED non_sql_vars

UserResponse(a) ==
    /\ llm_responded' = [llm_responded EXCEPT ![a] = FALSE]
    /\ used_run_query' = [used_run_query EXCEPT ![a] = FALSE]
    /\ last_turn' = [last_turn EXCEPT ![a] = "user"]
    /\ sql_call' = [op |-> "user_response", agent |-> a]
    /\ sql_ret' \in {NoneValue, ChatDocument(<<"user">>)}
    /\ sql_raised' = "none"
    /\ query_since_turn' = [query_since_turn EXCEPT ![a] = FALSE]
    /\ UNCHANGED <<config, interactive, enabled_tools, message_history,
                   session_log, db_outcome>>
    /\ UNCHANGED non_sql_vars

HandleMessageFallbackConsumes(a) ==
    /\ sql_ret' = handle_message_fallback(llm_responded[a], interactive[a], config[a])
    /\ sql_call' = [op |-> "handle_message_fallback", agent |-> a]
    /\ llm_responded' = [llm_responded EXCEPT ![a] = FALSE]
    /\ sql_raised' = "none"
    /\ UNCHANGED <<config, interactive, enabled_tools, used_run_query,
                   message_history, last_turn, session_log, db_outcome,
                   query_since_turn>>
    /\ UNCHANGED non_sql_vars

HandleMessageFallback(a) ==
    /\ sql_ret' = handle_message_fallback(llm_responded[a], interactive[a], config[a])
    /\ sql_call' = [op |-> "handle_message_fallback", agent |-> a]
    /\ sql_raised' = "none"
    /\ UNCHANGED <<config, interactive, enabled_tools, llm_responded,
                   used_run_query, message_history, last_turn, session_log,
                   db_outcome, query_since_turn>>
    /\ UNCHANGED non_sql_vars

RunQuery(a) ==
    \E outcome \in QueryOutcomes :
        LET r == run_query(config[a], outcome)
        IN  /\ used_run_query' = [used_run_query EXCEPT ![a] = TRUE]
            /\ sql_ret' = r.ret
            /\ session_log' = r.log
            /\ sql_raised' = r.raised
            /\ db_outcome' = outcome
            /\ query_since_turn' = [query_since_turn EXCEPT ![a] = TRUE]
            /\ sql_call' = [op |-> "run_query", agent |-> a]
            /\ UNCHANGED <<config, interactive, enabled_tools, llm_responded,
                           message_history, last_turn>>
            /\ UNCHANGED non_sql_vars

\* one call on agent a from outside a task loop
SqlStep(a) ==
    \/ LlmResponse(a) /\ UNCHANGED task_vars
    \/ UserResponse(a) /\ UNCHANGED task_vars
    \/ HandleMessageFallback(a) /\ UNCHANGED task_vars
    \/ RunQuery(a) /\ UNCHANGED task_vars

\* one call on agent a while another agent runs beside it
SqlStepTwo(a) ==
    \/ /\ Len(message_history[a]) < MaxHistTwo
       /\ LlmResponse(a)
       /\ UNCHANGED task_vars
    \/ UserResponse(a) /\ UNCHANGED task_vars
    \/ RunQuery(a) /\ UNCHANGED task_vars

---------------------------------------------------------------------------
(* The task loop that drives an agent: its caller in the framework.  The   *)
(* loop classifies each LLM message, applies the directive and enforces    *)
(* the turn budget.                                                        *)

\* the last message the LLM of agent a produced
LastMessage(a) == message_history[a][Len(message_history[a])]

\* the retry directive for tool-like text that does not parse
MalformedToolDirective ==
    Str(<<"MalformedTool", "retry using the correct tool syntax">>)

TaskInit ==
    /\ task_phase = "await_llm"
    /\ task_turns = 0
    /\ task_error = "none"

\* AWAITING_LLM: the next LLM turn, within the budget
TaskLlmTurn(a) ==
    /\ task_phase = "await_llm"
    /\ task_turns < TurnBudget
    /\ LlmResponse(a)
    /\ task_turns' = task_turns + 1
    /\ task_phase' = "classify"
    /\ UNCHANGED task_error

TaskBudgetIgnored(a) ==
    /\ task_phase = "await_llm"
    /\ task_turns >= TurnBudget
    /\ task_phase' = "done"
    /\ UNCHANGED <<task_turns, task_error>>
    /\ UNCHANGED <<non_sql_vars, sql_vars>>

\* AWAITING_LLM with the budget used up: the run fails
TaskBudgetExceeded(a) ==
    /\ task_phase = "await_llm"
    /\ task_turns >= TurnBudget
    /\ task_phase' = "failed"
    /\ task_error' = "TurnBudgetExceeded"
    /\ UNCHANGED task_turns
    /\ UNCHANGED <<non_sql_vars, sql_vars>>

\* TOOL: the handler runs and its result is fed back to the LLM
TaskTool(a) ==
    /\ task_phase = "classify"
    /\ LastMessage(a) = "tool"
    /\ RunQuery(a)
    /\ task_phase' = "await_llm"
    /\ UNCHANGED <<task_turns, task_error>>

\* FINAL_ANSWER: the Done tool was invoked
TaskDone(a) ==
    /\ task_phase = "classify"
    /\ LastMessage(a) = "tool"
    /\ DoneToolName \in enabled_tools[a]
    /\ task_phase' = "done"
    /\ UNCHANGED <<task_turns, task_error>>
    /\ UNCHANGED <<non_sql_vars, sql_vars>>

TaskMalformedToolToUser(a) ==
    /\ task_phase = "classify"
    /\ LastMessage(a) = "malformed_tool"
    /\ sql_ret' = ForwardTool("User")
    /\ sql_call' = [op |-> "malformed_tool", agent |-> a]
    /\ sql_raised' = "none"
    /\ task_phase' = "await_user"
    /\ UNCHANGED <<task_turns, task_error>>
    /\ UNCHANGED <<config, interactive, enabled_tools, llm_responded,
                   used_run_query, message_history, last_turn, session_log,
                   db_outcome, query_since_turn>>
    /\ UNCHANGED non_sql_vars

\* MalformedTool: the error goes back to the agent that produced the text
TaskMalformedTool(a) ==
    /\ task_phase = "classify"
    /\ LastMessage(a) = "malformed_tool"
    /\ sql_ret' = MalformedToolDirective
    /\ sql_call' = [op |-> "malformed_tool", agent |-> a]
    /\ sql_raised' = "none"
    /\ task_phase' = "await_llm"
    /\ UNCHANGED <<task_turns, task_error>>
    /\ UNCHANGED <<config, interactive, enabled_tools, llm_responded,
                   used_run_query, message_history, last_turn, session_log,
                   db_outcome, query_since_turn>>
    /\ UNCHANGED non_sql_vars

\* no tool recognized: FORWARD_TO_USER or AMBIGUOUS, by handle_message_fallback
TaskFallback(a) ==
    /\ task_phase = "classify"
    /\ LastMessage(a) = "text"
    /\ HandleMessageFallback(a)
    /\ task_phase' = IF sql_ret'.kind = "ForwardTool" THEN "await_user"
                     ELSE "await_llm"
    /\ UNCHANGED <<task_turns, task_error>>

\* the user's turn after a forward
TaskUser(a) ==
    /\ task_phase = "await_user"
    /\ UserResponse(a)
    /\ task_phase' = "await_llm"
    /\ UNCHANGED <<task_turns, task_error>>

TaskStep(a) ==
    \/ TaskLlmTurn(a)
    \/ TaskBudgetExceeded(a)
    \/ TaskTool(a)
    \/ TaskDone(a)
    \/ TaskMalformedTool(a)
    \/ TaskFallback(a)
    \/ TaskUser(a)

---------------------------------------------------------------------------
(* The delegation tree: tasks, their sub-task lists, and the injection of  *)
(* UI callbacks into the agents of a task tree.                            *)

\* the tasks of a run: a main task and the tasks added under it
Tasks == {"root", "child1", "child2", "child3"}
NoTask == "none"

TreeInit ==
    /\ sub_tasks = [t \in Tasks |-> <<>>]
    /\ parent_task = [t \in Tasks |-> NoTask]
    /\ tree_call = [op |-> "none", parent |-> NoTask, child |-> NoTask,
                    raised |-> "none"]
    /\ injected = {}
    /\ inject_order = <<>>

RECURSIVE walk_parent_chain(_, _, _)
\* c is met on the parent chain that starts at t
walk_parent_chain(t, c, fuel) ==
    IF t = c THEN TRUE
    ELSE IF parent_task[t] = NoTask \/ fuel = 0 THEN FALSE
    ELSE walk_parent_chain(parent_task[t], c, fuel - 1)

attach_unchecked(p, c) ==
    [raised |-> "none",
     sub_tasks |-> [sub_tasks EXCEPT ![p] = Append(@, c)],
     parent_task |-> [parent_task EXCEPT ![c] = p]]

\* attach(parent, child): CycleDetected, or child appended to parent's list
attach(p, c) ==
    IF walk_parent_chain(p, c, Cardinality(Tasks))
    THEN [raised |-> "CycleDetected",
          sub_tasks |-> sub_tasks,
          parent_task |-> parent_task]
    ELSE [raised |-> "none",
          sub_tasks |-> [sub_tasks EXCEPT ![p] = Append(@, c)],
          parent_task |-> [parent_task EXCEPT ![c] = p]]

\* a task that no task owns yet is attached under p
Attach(p, c) ==
    /\ parent_task[c] = NoTask
    /\ LET r == attach(p, c)
       IN  /\ sub_tasks' = r.sub_tasks
           /\ parent_task' = r.parent_task
           /\ tree_call' = [op |-> "attach", parent |-> p, child |-> c,
                            raised |-> r.raised]
    /\ UNCHANGED <<injected, inject_order>>
    /\ UNCHANGED <<mem_vars, sql_vars, task_vars, cb_vars, ext_vars>>

RECURSIVE inject_callbacks(_, _)
RECURSIVE inject_sub_tasks(_, _)

\* the for loop of _inject_callbacks over task.sub_tasks
inject_sub_tasks(ts, fuel) ==
    IF ts = <<>> THEN <<>>
    ELSE inject_callbacks(Head(ts), fuel) \o inject_sub_tasks(Tail(ts), fuel)

inject_callbacks_shallow(t, fuel) == <<t>> \o sub_tasks[t]

\* ChainlitTaskCallbacks._inject_callbacks: the tasks in the order in which
\* ChainlitAgentCallbacks is constructed on their agents
inject_callbacks(t, fuel) ==
    IF fuel = 0 THEN <<>>
    ELSE <<t>> \o inject_sub_tasks(sub_tasks[t], fuel - 1)

\* ChainlitTaskCallbacks(task)
InjectCallbacks(t) ==
    /\ LET order == inject_callbacks(t, Cardinality(Tasks))
       IN  /\ inject_order' = order
           /\ injected' = injected \cup {order[i] : i \in 1..Len(order)}
    /\ tree_call' = [op |-> "inject_callbacks", parent |-> t, child |-> NoTask,
                     raised |-> "none"]
    /\ UNCHANGED <<sub_tasks, parent_task>>
    /\ UNCHANGED <<mem_vars, sql_vars, task_vars, cb_vars, ext_vars>>

TreeNext ==
    \/ \E p, c \in Tasks : Attach(p, c)
    \/ \E t \in Tasks : InjectCallbacks(t)

---------------------------------------------------------------------------
(* The chainlit callbacks of the agents: nesting of UI steps under the     *)
(* parent agent's last step, and the question put to the user.             *)

\* agents that have ChainlitAgentCallbacks installed
CbAgents == {"a1", "a2", "a3"}
NoAgent == "None"
\* a cl.Step id is fresh per step and records the agent that created it;
\* NoStep stands for None
NoStep == [owner |-> "None", n |-> 0]

\* what cl.AskUserMessage(...).send() gives: None on timeout, or an output
NoResponse == "None"
UserOutputs == {"c", "x", "hello"}
Prompts == {"", "Continue?"}
StreamContents == {"", "text"}

\* values of the "exit" and "continue" choices of _get_user_response_buttons
ExitValue == "x"
ContinueValue == ""

CbInitWith(hides) ==
    /\ parent_agent = [a \in CbAgents |-> NoAgent]
    /\ last_step = [a \in CbAgents |-> NoStep]
    /\ stream = [a \in CbAgents |-> NoStep]
    /\ displayed = {}
    /\ next_id = 1
    /\ hide_cot \in hides
    /\ cb_call = [op |-> "none", agent |-> NoAgent, res |-> NoResponse,
                  shown |-> <<>>]
    /\ cb_anchor = NoStep
    /\ cb_hops = 0
    /\ cb_ret = "None"
    /\ cb_raised = "none"

\* get_last_step
get_last_step(a) == last_step[a]

get_parent_id_own(a) ==
    IF parent_agent[a] = NoAgent
    THEN [id |-> NoStep, hops |-> 0]
    ELSE [id |-> get_last_step(a), hops |-> 1]

RECURSIVE walk_to_last_step(_, _)
\* follows parent pointers until an agent with a last step is found
walk_to_last_step(a, hops) ==
    IF parent_agent[a] = NoAgent \/ hops > Cardinality(CbAgents)
    THEN [id |-> NoStep, hops |-> hops]
    ELSE IF get_last_step(parent_agent[a]) # NoStep
    THEN [id |-> get_last_step(parent_agent[a]), hops |-> hops + 1]
    ELSE walk_to_last_step(parent_agent[a], hops + 1)

get_parent_id_walking(a) == walk_to_last_step(a, 0)

\* _get_parent_id: the id, and the number of parent pointers followed
get_parent_id(a) ==
    IF parent_agent[a] = NoAgent
    THEN [id |-> NoStep, hops |-> 0]
    ELSE [id |-> get_last_step(parent_agent[a]), hops |-> 1]

ask_user_step_timeout_continue(prompt, res, suppress_values, hide) ==
    LET question == IF prompt # "" THEN <<"question">> ELSE <<>>
    IN  IF res = NoResponse
        THEN [ret |-> "", hide_cot |-> FALSE,
              shown |-> question \o <<"timed_out">>]
        ELSE IF res \in suppress_values
        THEN [ret |-> "", hide_cot |-> hide, shown |-> question \o <<"temp">>]
        ELSE [ret |-> res, hide_cot |-> hide,
              shown |-> question \o <<"temp", "answer">>]

\* ask_user_step: the value returned, config.ui.hide_cot at return, and the
\* steps and messages displayed
ask_user_step(prompt, res, suppress_values, hide) ==
    LET question == IF prompt # "" THEN <<"question">> ELSE <<>>
    IN  IF res = NoResponse
        THEN [ret |-> "x", hide_cot |-> FALSE,
              shown |-> question \o <<"timed_out">>]
        ELSE IF res \in suppress_values
        THEN [ret |-> "", hide_cot |-> hide, shown |-> question \o <<"temp">>]
        ELSE [ret |-> res, hide_cot |-> hide,
              shown |-> question \o <<"temp", "answer">>]

\* the step created by agent a now
FreshStep(a) == [owner |-> a, n |-> next_id]

SetParentAgent(a, p) ==
    /\ parent_agent' = [parent_agent EXCEPT ![a] = p]
    /\ cb_call' = [op |-> "set_parent_agent", agent |-> a, res |-> NoResponse,
                   shown |-> <<>>]
    /\ cb_raised' = "none"
    /\ cb_anchor' = NoStep
    /\ cb_hops' = 0
    /\ cb_ret' = "None"
    /\ UNCHANGED <<last_step, stream, displayed, next_id, hide_cot>>
    /\ UNCHANGED <<mem_vars, sql_vars, task_vars, tree_vars, ext_vars>>

StartLlmStream(a) ==
    /\ next_id <= MaxSteps
    /\ LET r == get_parent_id(a)
       IN  /\ cb_anchor' = r.id
           /\ cb_hops' = r.hops
    /\ stream' = [stream EXCEPT ![a] = FreshStep(a)]
    /\ last_step' = [last_step EXCEPT ![a] = FreshStep(a)]
    /\ displayed' = displayed \cup {FreshStep(a)}
    /\ next_id' = next_id + 1
    /\ cb_call' = [op |-> "start_llm_stream", agent |-> a, res |-> NoResponse,
                   shown |-> <<"stream">>]
    /\ cb_raised' = "none"
    /\ cb_ret' = "None"
    /\ UNCHANGED <<parent_agent, hide_cot>>
    /\ UNCHANGED <<mem_vars, sql_vars, task_vars, tree_vars, ext_vars>>

CancelLlmStream(a) ==
    /\ last_step' = [last_step EXCEPT ![a] = NoStep]
    /\ displayed' = IF stream[a] # NoStep THEN displayed \ {stream[a]}
                    ELSE displayed
    /\ cb_call' = [op |-> "cancel_llm_stream", agent |-> a, res |-> NoResponse,
                   shown |-> <<>>]
    /\ cb_raised' = "none"
    /\ cb_anchor' = NoStep
    /\ cb_hops' = 0
    /\ cb_ret' = "None"
    /\ UNCHANGED <<parent_agent, stream, next_id, hide_cot>>
    /\ UNCHANGED <<mem_vars, sql_vars, task_vars, tree_vars, ext_vars>>

FinishLlmStream(a) ==
    \E content \in StreamContents :
        /\ cb_call' = [op |-> "finish_llm_stream", agent |-> a,
                       res |-> NoResponse,
                       shown |-> IF stream[a] = NoStep THEN <<>>
                                 ELSE <<"response">>]
        /\ IF stream[a] = NoStep
           THEN /\ cb_raised' = "ValueError"
                /\ cb_anchor' = NoStep
                /\ cb_hops' = 0
                /\ UNCHANGED <<displayed, next_id>>
           ELSE /\ cb_raised' = "none"
                /\ content = "" => next_id <= MaxSteps
                /\ LET r == get_parent_id(a)
                   IN  /\ cb_anchor' = r.id
                       /\ cb_hops' = r.hops
                /\ IF content = ""
                   THEN /\ displayed' = (displayed \ {stream[a]})
                                          \cup {FreshStep(a)}
                        /\ next_id' = next_id + 1
                   ELSE /\ displayed' = displayed \cup {stream[a]}
                        /\ UNCHANGED next_id
        /\ cb_ret' = "None"
        /\ UNCHANGED <<parent_agent, last_step, stream, hide_cot>>
        /\ UNCHANGED <<mem_vars, sql_vars, task_vars, tree_vars, ext_vars>>

\* show_llm_response: a new step becomes last_step
ShowLlmResponse(a) ==
    /\ next_id <= MaxSteps
    /\ LET r == get_parent_id(a)
       IN  /\ cb_anchor' = r.id
           /\ cb_hops' = r.hops
    /\ last_step' = [last_step EXCEPT ![a] = FreshStep(a)]
    /\ displayed' = displayed \cup {FreshStep(a)}
    /\ next_id' = next_id + 1
    /\ cb_call' = [op |-> "show_llm_response", agent |-> a, res |-> NoResponse,
                   shown |-> <<"response">>]
    /\ cb_raised' = "none"
    /\ cb_ret' = "None"
    /\ UNCHANGED <<parent_agent, stream, hide_cot>>
    /\ UNCHANGED <<mem_vars, sql_vars, task_vars, tree_vars, ext_vars>>

\* show_agent_response: a new step becomes last_step
ShowAgentResponse(a) ==
    /\ next_id <= MaxSteps
    /\ LET r == get_parent_id(a)
       IN  /\ cb_anchor' = r.id
           /\ cb_hops' = r.hops
    /\ last_step' = [last_step EXCEPT ![a] = FreshStep(a)]
    /\ displayed' = displayed \cup {FreshStep(a)}
    /\ next_id' = next_id + 1
    /\ cb_call' = [op |-> "show_agent_response", agent |-> a, res |-> NoResponse,
                   shown |-> <<"response">>]
    /\ cb_raised' = "none"
    /\ cb_ret' = "None"
    /\ UNCHANGED <<parent_agent, stream, hide_cot>>
    /\ UNCHANGED <<mem_vars, sql_vars, task_vars, tree_vars, ext_vars>>

\* get_user_response with the prompt and the user's reaction given
GetUserResponseWith(a, prompt, res) ==
    /\ LET r == get_parent_id(a)
       IN  /\ cb_anchor' = r.id
           /\ cb_hops' = r.hops
    /\ LET u == ask_user_step(prompt, res, {"c"}, hide_cot)
       IN  /\ cb_ret' = u.ret
           /\ hide_cot' = u.hide_cot
           /\ cb_call' = [op |-> "get_user_response", agent |-> a,
                          res |-> res, shown |-> u.shown]
    /\ cb_raised' = "none"
    /\ UNCHANGED <<parent_agent, last_step, stream, displayed, next_id>>
    /\ UNCHANGED <<mem_vars, sql_vars, task_vars, tree_vars, ext_vars>>

GetUserResponse(a) ==
    \E prompt \in Prompts, res \in UserOutputs \cup {NoResponse} :
        GetUserResponseWith(a, prompt, res)

\* the calls that set parents and move the agents' last steps, and the
\* question to a user who does not answer
NestingStep(a) ==
    \/ \E p \in CbAgents : SetParentAgent(a, p)
    \/ ShowLlmResponse(a)
    \/ CancelLlmStream(a)
    \/ GetUserResponseWith(a, "", NoResponse)

\* the calls one agent makes on the UI in a conversation with the user
UiStep(a) ==
    \/ StartLlmStream(a)
    \/ CancelLlmStream(a)
    \/ FinishLlmStream(a)
    \/ ShowLlmResponse(a)
    \/ ShowAgentResponse(a)
    \/ GetUserResponse(a)

CbNext == \E a \in CbAgents : NestingStep(a)

UiNext == UiStep("a1")

\* no task loop is running
TaskIdle ==
    /\ task_phase = "idle"
    /\ task_turns = 0
    /\ task_error = "none"

---------------------------------------------------------------------------
(* The verodat conversation: ConversationManager.run_conversation drives   *)
(* the CEO agent, the ValueProp agent and the memory for three rounds.     *)
(* (src/verodat/agent_conversation.py, agent_ceo.py, agent_value_prop.py)  *)

CeoName == <<"C", "E", "O">>
ValuePropName == <<"V", "a", "l", "u", "e", "P", "r", "o", "p">>

\* seed_question of run_conversation, as one token
SeedQuestion == <<"What is our most impactful offering?">>

\* what get_answer returns without data, as one token
UnableMessage == <<"Unable to retrieve necessary data to answer the question.">>

\* what the verodat connection hands back: None after a request error,
\* an empty JSON object, or a JSON object with content
DatasetValues == {"None", "empty", "full"}

\* Python's "not v" for these values
Falsy(v) == v \in {"None", "empty"}

\* answers of the chat models in a conversation: a text, the empty text,
\* or an exception
ConvResponses == {r \in Responses : r.content \in {<<"p">>, <<>>}
                                    /\ r.error \in {"none", "LLMError"}}

\* range(3) of run_conversation
Rounds == 3
\* the "i < 2" that guards generate_follow_up
FollowUpRounds == 2

get_answer_always_asks(dataset_info, data, resp) ==
    IF resp.ok
    THEN [ret |-> resp.content, raised |-> "none", llm_called |-> TRUE]
    ELSE [ret |-> <<>>, raised |-> resp.error, llm_called |-> TRUE]

\* CEOAgent.get_answer: what it returns or raises, and whether it called
\* the chat model
get_answer(dataset_info, data, resp) ==
    IF Falsy(dataset_info) \/ Falsy(data)
    THEN [ret |-> UnableMessage, raised |-> "none", llm_called |-> FALSE]
    ELSE IF resp.ok
    THEN [ret |-> resp.content, raised |-> "none", llm_called |-> TRUE]
    ELSE [ret |-> <<>>, raised |-> resp.error, llm_called |-> TRUE]

\* ValuePropAgent.process_message: the model's answer, or its exception
process_message(resp) ==
    IF resp.ok THEN [ret |-> resp.content, raised |-> "none"]
    ELSE [ret |-> <<>>, raised |-> resp.error]

\* ConversationManager.generate_follow_up: the model's answer, or its
\* exception
generate_follow_up(resp) ==
    IF resp.ok THEN [ret |-> resp.content, raised |-> "none"]
    ELSE [ret |-> <<>>, raised |-> resp.error]

\* where control is after the end of round i
end_of_round(i) ==
    IF i + 1 < Rounds
    THEN [pc |-> "get_context", round |-> i + 1, raised |-> "none"]
    ELSE [pc |-> "done", round |-> i, raised |-> "none"]

next_position_follow_up_always(pc, i) ==
    CASE pc = "get_context" -> [pc |-> "ceo", round |-> i, raised |-> "none"]
      [] pc = "ceo"         -> [pc |-> "add_ceo", round |-> i, raised |-> "none"]
      [] pc = "add_ceo"     -> [pc |-> "vp", round |-> i, raised |-> "none"]
      [] pc = "vp"          -> [pc |-> "add_vp", round |-> i, raised |-> "none"]
      [] pc = "add_vp"      -> [pc |-> "follow_up", round |-> i, raised |-> "none"]
      [] pc = "follow_up"   -> end_of_round(i)

\* the statement of the loop body that follows statement pc of round i
next_position(pc, i) ==
    CASE pc = "get_context" -> [pc |-> "ceo", round |-> i, raised |-> "none"]
      [] pc = "ceo"         -> [pc |-> "add_ceo", round |-> i, raised |-> "none"]
      [] pc = "add_ceo"     -> [pc |-> "vp", round |-> i, raised |-> "none"]
      [] pc = "vp"          -> [pc |-> "add_vp", round |-> i, raised |-> "none"]
      [] pc = "add_vp"      -> IF i < FollowUpRounds
                               THEN [pc |-> "follow_up", round |-> i,
                                     raised |-> "none"]
                               ELSE end_of_round(i)
      [] pc = "follow_up"   -> end_of_round(i)

on_exception_swallowed(i, e) == end_of_round(i)

\* the except block of run_conversation: print and re-raise
on_exception(i, e) == [pc |-> "failed", round |-> i, raised |-> e]

\* where control is after statement pc of round i raised or did not
after_step(pc, i, raised) ==
    IF raised = "none" THEN next_position(pc, i) ELSE on_exception(i, raised)

\* the except block of main: print and re-raise
main(raised) == raised

NoConvCall == [op |-> "none", dataset_info |-> "", data |-> "", ret |-> <<>>,
               raised |-> "none", llm_called |-> FALSE]

\* ConversationManager() and the entry of run_conversation; pcs = {"idle"}
\* when no conversation is run
ConvInitWith(pcs) ==
    /\ conv_pc \in pcs
    /\ conv_round = 0
    /\ current_question = SeedQuestion
    /\ ceo_response = <<>>
    /\ vp_response = <<>>
    /\ conv_events = <<>>
    /\ conv_call = NoConvCall
    /\ conv_error = "none"
    /\ conv_raised = "none"
    /\ main_raised = "none"

ConvIdle == ConvInitWith({"idle"})

\* context = self.memory.get_context()
ConvGetContext ==
    /\ conv_pc = "get_context"
    /\ mem_ret' = get_context(insights)
    /\ mem_prev_ret' = IF mem_call.op = "get_context" THEN mem_ret ELSE NoValue
    /\ mem_call' = [op |-> "get_context", agent |-> <<>>, content |-> <<>>,
                    resp |-> [ok |-> TRUE, content |-> <<>>, error |-> "none"]]
    /\ mem_raised' = "none"
    /\ LET nxt == after_step("get_context", conv_round, "none")
       IN  /\ conv_pc' = nxt.pc
           /\ conv_round' = nxt.round
           /\ conv_raised' = nxt.raised
           /\ main_raised' = main(nxt.raised)
    /\ conv_events' = Append(conv_events,
                             [round |-> conv_round, step |-> "get_context"])
    /\ conv_call' = [NoConvCall EXCEPT !.op = "get_context",
                                       !.ret = get_context(insights)]
    /\ UNCHANGED <<insights, max_insights, added>>
    /\ UNCHANGED <<current_question, ceo_response, vp_response, conv_error>>
    /\ UNCHANGED <<sql_vars, task_vars, tree_vars, cb_vars, qd_vars>>

\* ceo_response = await self.ceo_agent.get_answer(ceo_prompt)
ConvCeoAnswer ==
    \E dataset_info \in DatasetValues, data \in DatasetValues,
       resp \in ConvResponses :
        /\ conv_pc = "ceo"
        /\ LET r == get_answer(dataset_info, data, resp)
               nxt == after_step("ceo", conv_round, r.raised)
           IN  /\ ceo_response' = IF r.raised = "none" THEN r.ret
                                  ELSE ceo_response
               /\ conv_call' = [op |-> "get_answer",
                                dataset_info |-> dataset_info, data |-> data,
                                ret |-> r.ret, raised |-> r.raised,
                                llm_called |-> r.llm_called]
               /\ conv_error' = IF conv_error = "none" THEN r.raised
                                ELSE conv_error
               /\ conv_events' = IF r.raised = "none"
                                 THEN Append(conv_events,
                                             [round |-> conv_round,
                                              step |-> "ceo"])
                                 ELSE conv_events
               /\ conv_pc' = nxt.pc
               /\ conv_round' = nxt.round
               /\ conv_raised' = nxt.raised
               /\ main_raised' = main(nxt.raised)
        /\ UNCHANGED <<current_question, vp_response>>
        /\ UNCHANGED mem_vars
        /\ UNCHANGED <<sql_vars, task_vars, tree_vars, cb_vars, qd_vars>>

\* await self.memory.add_insight("CEO", ceo_response)
ConvAddCeoInsight ==
    \E resp \in ConvResponses :
        /\ conv_pc = "add_ceo"
        /\ LET r == add_insight(insights, max_insights, CeoName,
                                ceo_response, resp)
               nxt == after_step("add_ceo", conv_round, r.raised)
           IN  /\ insights' = r.insights
               /\ mem_raised' = r.raised
               /\ conv_call' = [NoConvCall EXCEPT !.op = "add_insight",
                                                  !.raised = r.raised,
                                                  !.llm_called = TRUE]
               /\ conv_error' = IF conv_error = "none" THEN r.raised
                                ELSE conv_error
               /\ conv_events' = IF r.raised = "none"
                                 THEN Append(conv_events,
                                             [round |-> conv_round,
                                              step |-> "add_ceo"])
                                 ELSE conv_events
               /\ conv_pc' = nxt.pc
               /\ conv_round' = nxt.round
               /\ conv_raised' = nxt.raised
               /\ main_raised' = main(nxt.raised)
        /\ added' = IF resp.ok
                    THEN Append(added, [agent |-> CeoName,
                                        point |-> resp.content])
                    ELSE added
        /\ mem_call' = [op |-> "add_insight", agent |-> CeoName,
                        content |-> ceo_response, resp |-> resp]
        /\ mem_ret' = NoValue
        /\ mem_prev_ret' = NoValue
        /\ UNCHANGED max_insights
        /\ UNCHANGED <<current_question, ceo_response, vp_response>>
        /\ UNCHANGED <<sql_vars, task_vars, tree_vars, cb_vars, qd_vars>>

\* vp_response = await self.value_prop_agent.process_message(vp_prompt)
ConvValuePropAnswer ==
    \E resp \in ConvResponses :
        /\ conv_pc = "vp"
        /\ LET r == process_message(resp)
               nxt == after_step("vp", conv_round, r.raised)
           IN  /\ vp_response' = IF r.raised = "none" THEN r.ret
                                 ELSE vp_response
               /\ conv_call' = [NoConvCall EXCEPT !.op = "process_message",
                                                  !.ret = r.ret,
                                                  !.raised = r.raised,
                                                  !.llm_called = TRUE]
               /\ conv_error' = IF conv_error = "none" THEN r.raised
                                ELSE conv_error
               /\ conv_events' = IF r.raised = "none"
                                 THEN Append(conv_events,
                                             [round |-> conv_round,
                                              step |-> "vp"])
                                 ELSE conv_events
               /\ conv_pc' = nxt.pc
               /\ conv_round' = nxt.round
               /\ conv_raised' = nxt.raised
               /\ main_raised' = main(nxt.raised)
        /\ UNCHANGED <<current_question, ceo_response>>
        /\ UNCHANGED mem_vars
        /\ UNCHANGED <<sql_vars, task_vars, tree_vars, cb_vars, qd_vars>>

\* await self.memory.add_insight("ValueProp", vp_response)
ConvAddValuePropInsight ==
    \E resp \in ConvResponses :
        /\ conv_pc = "add_vp"
        /\ LET r == add_insight(insights, max_insights, ValuePropName,
                                vp_response, resp)
               nxt == after_step("add_vp", conv_round, r.raised)
           IN  /\ insights' = r.insights
               /\ mem_raised' = r.raised
               /\ conv_call' = [NoConvCall EXCEPT !.op = "add_insight",
                                                  !.raised = r.raised,
                                                  !.llm_called = TRUE]
               /\ conv_error' = IF conv_error = "none" THEN r.raised
                                ELSE conv_error
               /\ conv_events' = IF r.raised = "none"
                                 THEN Append(conv_events,
                                             [round |-> conv_round,
                                              step |-> "add_vp"])
                                 ELSE conv_events
               /\ conv_pc' = nxt.pc
               /\ conv_round' = nxt.round
               /\ conv_raised' = nxt.raised
               /\ main_raised' = main(nxt.raised)
        /\ added' = IF resp.ok
                    THEN Append(added, [agent |-> ValuePropName,
                                        point |-> resp.content])
                    ELSE added
        /\ mem_call' = [op |-> "add_insight", agent |-> ValuePropName,
                        content |-> vp_response, resp |-> resp]
        /\ mem_ret' = NoValue
        /\ mem_prev_ret' = NoValue
        /\ UNCHANGED max_insights
        /\ UNCHANGED <<current_question, ceo_response, vp_response>>
        /\ UNCHANGED <<sql_vars, task_vars, tree_vars, cb_vars, qd_vars>>

\* current_question = await self.generate_follow_up(...)
ConvFollowUp ==
    \E resp \in ConvResponses :
        /\ conv_pc = "follow_up"
        /\ LET r == generate_follow_up(resp)
               nxt == after_step("follow_up", conv_round, r.raised)
           IN  /\ current_question' = IF r.raised = "none" THEN r.ret
                                      ELSE current_question
               /\ conv_call' = [NoConvCall EXCEPT !.op = "generate_follow_up",
                                                  !.ret = r.ret,
                                                  !.raised = r.raised,
                                                  !.llm_called = TRUE]
               /\ conv_error' = IF conv_error = "none" THEN r.raised
                                ELSE conv_error
               /\ conv_events' = IF r.raised = "none"
                                 THEN Append(conv_events,
                                             [round |-> conv_round,
                                              step |-> "follow_up"])
                                 ELSE conv_events
               /\ conv_pc' = nxt.pc
               /\ conv_round' = nxt.round
               /\ conv_raised' = nxt.raised
               /\ main_raised' = main(nxt.raised)
        /\ UNCHANGED <<ceo_response, vp_response>>
        /\ UNCHANGED mem_vars
        /\ UNCHANGED <<sql_vars, task_vars, tree_vars, cb_vars, qd_vars>>

\* one statement of run_conversation
ConvNext ==
    \/ ConvGetContext
    \/ ConvCeoAnswer
    \/ ConvAddCeoInsight
    \/ ConvValuePropAnswer
    \/ ConvAddValuePropInsight
    \/ ConvFollowUp

---------------------------------------------------------------------------
(* The Qdrant vector store behind QdrantDB                                 *)
(* (src/langroid/vector_store/qdrantdb.py).  The store maps each           *)
(* collection name to its info; each point carries one vector.            *)

CollNames == {"c1", "c2"}

\* CollectionStatus
Statuses == {"green", "yellow", "red"}

\* the entry of a name the store has no collection for
NoCollection == [points_count |-> 0, status |-> "absent"]

Exists(colls, name) == colls[name].status # "absent"

\* collection_info.vectors_count: one vector per point
vectors_count(info) == info.points_count

\* _list_all_collections: every collection, the empty ones included
list_all_collections(colls) == {n \in CollNames : Exists(colls, n)}

\* list_collections: the collections that have at least one point
list_collections(colls) ==
    {n \in list_all_collections(colls) : colls[n].points_count > 0}

\* clear_empty_collections: the store after the call and the value returned
clear_empty_collections(colls) ==
    LET coll_names == list_collections(colls)
        deleted == {n \in coll_names : colls[n].points_count = 0}
    IN  [collections |-> [n \in CollNames |->
                            IF n \in deleted THEN NoCollection ELSE colls[n]],
         ret |-> Cardinality(deleted)]

\* create_collection: the store after the call, the exception raised and
\* whether recreate_collection was called; fresh_status is the status the
\* server reports for the recreated collection
create_collection(colls, name, replace, fresh_status) ==
    IF /\ name \in list_collections(colls)
       /\ colls[name].status = "green"
       /\ colls[name].points_count > 0
       /\ ~replace
    THEN [collections |-> colls, raised |-> "none", recreated |-> FALSE]
    ELSE [collections |-> [colls EXCEPT ![name] =
                              [points_count |-> 0, status |-> fresh_status]],
          raised |-> IF fresh_status = "green" THEN "none"
                     ELSE "AssertionError",
          recreated |-> TRUE]

NoQdRet == [n |-> 0, names |-> {}]

\* a QdrantDB over an empty store, built with collection_name None
QdInit ==
    /\ collections = [n \in CollNames |-> NoCollection]
    /\ collection_name = "None"
    /\ qd_call = [op |-> "init", name |-> "None", replace |-> FALSE,
                  recreated |-> FALSE]
    /\ qd_ret = NoQdRet
    /\ qd_raised = "none"

QdIdle == QdInit

CreateCollection ==
    \E name \in CollNames, replace \in BOOLEAN,
       fresh_status \in {"green", "yellow"} :
        LET r == create_collection(collections, name, replace, fresh_status)
        IN  /\ collection_name' = name
            /\ collections' = r.collections
            /\ qd_raised' = r.raised
            /\ qd_call' = [op |-> "create_collection", name |-> name,
                           replace |-> replace, recreated |-> r.recreated]
            /\ qd_ret' = NoQdRet
            /\ UNCHANGED <<mem_vars, sql_vars, task_vars, tree_vars, cb_vars,
                           conv_vars>>

ClearEmptyCollections ==
    LET r == clear_empty_collections(collections)
    IN  /\ collections' = r.collections
        /\ qd_ret' = [n |-> r.ret, names |-> {}]
        /\ qd_raised' = "none"
        /\ qd_call' = [op |-> "clear_empty_collections", name |-> "None",
                       replace |-> FALSE, recreated |-> FALSE]
        /\ UNCHANGED collection_name
        /\ UNCHANGED <<mem_vars, sql_vars, task_vars, tree_vars, cb_vars,
                       conv_vars>>

ListCollections ==
    /\ qd_ret' = [n |-> 0, names |-> list_collections(collections)]
    /\ qd_raised' = "none"
    /\ qd_call' = [op |-> "list_collections", name |-> "None",
                   replace |-> FALSE, recreated |-> FALSE]
    /\ UNCHANGED <<collections, collection_name>>
    /\ UNCHANGED <<mem_vars, sql_vars, task_vars, tree_vars, cb_vars,
                   conv_vars>>

\* add_documents with n_docs documents, none of them stored before
AddDocuments ==
    \E n_docs \in 1..MaxPoints, fresh_status \in {"green", "yellow"} :
        /\ IF collection_name = "None"
           THEN /\ qd_raised' = "ValueError"
                /\ UNCHANGED collections
           ELSE LET created ==
                        IF collection_name \in list_all_collections(collections)
                        THEN [collections |-> collections, raised |-> "none"]
                        ELSE create_collection(collections, collection_name,
                                               TRUE, fresh_status)
                    upserted ==
                        [created.collections EXCEPT
                           ![collection_name].points_count =
                               Min(@ + n_docs, MaxPoints)]
                IN  /\ qd_raised' = created.raised
                    /\ collections' = IF created.raised = "none"
                                      THEN upserted
                                      ELSE created.collections
        /\ qd_call' = [op |-> "add_documents", name |-> collection_name,
                       replace |-> FALSE, recreated |-> FALSE]
        /\ qd_ret' = NoQdRet
        /\ UNCHANGED collection_name
        /\ UNCHANGED <<mem_vars, sql_vars, task_vars, tree_vars, cb_vars,
                       conv_vars>>

DeleteCollection ==
    \E name \in CollNames :
        /\ collections' = [collections EXCEPT ![name] = NoCollection]
        /\ qd_raised' = "none"
        /\ qd_call' = [op |-> "delete_collection", name |-> name,
                       replace |-> FALSE, recreated |-> FALSE]
        /\ qd_ret' = NoQdRet
        /\ UNCHANGED collection_name
        /\ UNCHANGED <<mem_vars, sql_vars, task_vars, tree_vars, cb_vars,
                       conv_vars>>

\* the server changes the status of a collection (optimizing, failed, ready)
StatusChange ==
    \E name \in CollNames, status \in Statuses :
        /\ Exists(collections, name)
        /\ collections[name].status # status
        /\ collections' = [collections EXCEPT ![name].status = status]
        /\ qd_call' = [op |-> "status_change", name |-> name,
                       replace |-> FALSE, recreated |-> FALSE]
        /\ qd_ret' = NoQdRet
        /\ qd_raised' = "none"
        /\ UNCHANGED collection_name
        /\ UNCHANGED <<mem_vars, sql_vars, task_vars, tree_vars, cb_vars,
                       conv_vars>>

QdNext ==
    \/ CreateCollection
    \/ ClearEmptyCollections
    \/ ListCollections
    \/ AddDocuments
    \/ DeleteCollection
    \/ StatusChange

---------------------------------------------------------------------------
(* Specifications *)

\* max_insights of a ConversationMemory built without the argument
DefaultMaxInsights == 5

MemInit ==
    /\ MemInitWith(0..MaxCap)
    /\ SqlInitWith({})
    /\ TaskIdle
    /\ TreeInit
    /\ CbInitWith({FALSE})
    /\ ConvIdle
    /\ QdIdle

\* a conversation memory with any capacity up to MaxCap; no SQL agent runs
MemSpec == MemInit /\ [][MemNext]_vars

SqlNext == SqlStep("a1")

SqlInit ==
    /\ MemInitWith({DefaultMaxInsights})
    /\ SqlInitWith({"a1"})
    /\ TaskIdle
    /\ TreeInit
    /\ CbInitWith({FALSE})
    /\ ConvIdle
    /\ QdIdle

\* one SQL agent with any configuration; the memory is not used
SqlSpec == SqlInit /\ [][SqlNext]_vars

SqlTwoNext == \E a \in Agents : SqlStepTwo(a)

SqlTwoInit ==
    /\ MemInitWith({DefaultMaxInsights})
    /\ SqlInitWith(Agents)
    /\ \A a \in Agents : /\ ~config[a].use_schema_tools
                         /\ config[a].addressing_prefix \in {"", SEND_TO}
                         /\ ~interactive[a]
    /\ ~config["a2"].chat_mode
    /\ TaskIdle
    /\ TreeInit
    /\ CbInitWith({FALSE})
    /\ ConvIdle
    /\ QdIdle

\* two SQL agents called in any interleaving
SqlTwoSpec == SqlTwoInit /\ [][SqlTwoNext]_vars

TaskNext == TaskStep("a1")

TreeRunInit ==
    /\ MemInitWith({DefaultMaxInsights})
    /\ SqlInitWith({})
    /\ TaskIdle
    /\ TreeInit
    /\ CbInitWith({FALSE})
    /\ ConvIdle
    /\ QdIdle

CbRunInit ==
    /\ MemInitWith({DefaultMaxInsights})
    /\ SqlInitWith({})
    /\ TaskIdle
    /\ TreeInit
    /\ CbInitWith({FALSE})
    /\ ConvIdle
    /\ QdIdle

\* callbacks of three agents whose parents are set in any way
CbSpec == CbRunInit /\ [][CbNext]_vars

UiRunInit ==
    /\ MemInitWith({DefaultMaxInsights})
    /\ SqlInitWith({})
    /\ TaskIdle
    /\ TreeInit
    /\ CbInitWith(BOOLEAN)
    /\ ConvIdle
    /\ QdIdle

\* one agent showing steps and asking the user, under either UI setting
UiSpec == UiRunInit /\ [][UiNext]_vars

\* tasks attached to each other and callbacks injected, in any order
TreeSpec == TreeRunInit /\ [][TreeNext]_vars

TaskRunInit ==
    /\ MemInitWith({DefaultMaxInsights})
    /\ SqlInitWith({"a1"})
    /\ TaskInit
    /\ TreeInit
    /\ CbInitWith({FALSE})
    /\ ConvIdle
    /\ QdIdle

\* a task run on one SQL agent with any configuration
TaskSpec == TaskRunInit /\ [][TaskNext]_vars

ConvRunInit ==
    /\ MemInitWith({DefaultMaxInsights})
    /\ SqlInitWith({})
    /\ TaskIdle
    /\ TreeInit
    /\ CbInitWith({FALSE})
    /\ ConvInitWith({"get_context"})
    /\ QdIdle

\* one run of run_conversation on a fresh ConversationManager
ConvSpec == ConvRunInit /\ [][ConvNext]_vars

QdRunInit ==
    /\ MemInitWith({DefaultMaxInsights})
    /\ SqlInitWith({})
    /\ TaskIdle
    /\ TreeInit
    /\ CbInitWith({FALSE})
    /\ ConvIdle
    /\ QdInit

\* calls on one QdrantDB while the server changes collection statuses
QdSpec == QdRunInit /\ [][QdNext]_vars

---------------------------------------------------------------------------
(* Properties of ConversationMemory *)

\* the last n elements of s
LastN(s, n) == SubSeq(s, Len(s) - n + 1, Len(s))

\* C1: for every non-negative max_insights, after any sequence of add_insight
\* calls the number of stored insights never exceeds max_insights.
C1_BoundedByMaxInsights == Len(insights) <= max_insights

\* C2: after k successful add_insight calls the buffer holds exactly the
\* min(k, max_insights) most recently added insights, in the order added.
C2_MostRecentKept ==
    insights = LastN(added, Min(Len(added), max_insights))

\* length of the rendered line of insight i: agent, ": ", point
C3_LineLen(ins, i) == Len(ins[i].agent) + 2 + Len(ins[i].point)

\* number of characters before the line of insight i in the rendered context
RECURSIVE C3_Offset(_, _)
C3_Offset(ins, i) ==
    IF i = 1 THEN 0 ELSE C3_Offset(ins, i - 1) + C3_LineLen(ins, i - 1) + 1

\* s is empty for an empty buffer, and otherwise consists of the lines
\* "<agent>: <point>" in buffer order with exactly one newline between
\* consecutive lines and nothing before the first or after the last line
C3_Shape(ins, s) ==
    IF ins = <<>> THEN s = <<>>
    ELSE /\ Len(s) = C3_Offset(ins, Len(ins) + 1) - 1
         /\ \A i \in 1..Len(ins) :
               LET o == C3_Offset(ins, i)
                   a == ins[i].agent
                   p == ins[i].point
               IN  /\ SubSeq(s, o + 1, o + Len(a)) = a
                   /\ s[o + Len(a) + 1] = ":"
                   /\ s[o + Len(a) + 2] = " "
                   /\ SubSeq(s, o + Len(a) + 3, o + Len(a) + 2 + Len(p)) = p
                   /\ (i < Len(ins) => s[o + C3_LineLen(ins, i) + 1] = NL)

\* C3: get_context returns "" for an empty buffer and otherwise one line
\* "<agent>: <point>" per stored insight, in buffer order, joined by single
\* newlines, with no newline added before the first or after the last line.
C3_ContextRendering ==
    mem_call.op = "get_context" => C3_Shape(insights, mem_ret)

C3_Witness ==
    /\ mem_call.op = "get_context"
    /\ Len(insights) = 2
    /\ insights[1] # insights[2]

\* C4: get_context is read-only and idempotent: a call leaves the buffer and
\* max_insights unchanged, and two calls with no add_insight in between
\* return identical strings.
C4_GetContextReadOnly ==
    /\ [](mem_call.op = "get_context" /\ mem_prev_ret # NoValue
            => mem_ret = mem_prev_ret)
    /\ [][mem_call'.op = "get_context"
            => insights' = insights /\ max_insights' = max_insights]_vars

C4_Witness ==
    /\ mem_call.op = "get_context"
    /\ mem_prev_ret # NoValue
    /\ Len(insights) >= 1

\* C5: when the summarization call raises, add_insight fails with that error
\* and the buffer is exactly as before the call: nothing appended (in
\* particular not the raw content), nothing evicted.
C5_FailedSummaryLeavesBuffer ==
    [][mem_call'.op = "add_insight" /\ ~mem_call'.resp.ok
         => /\ mem_raised' = mem_call'.resp.error
            /\ insights' = insights]_vars

C5_Witness ==
    /\ mem_call.op = "add_insight"
    /\ ~mem_call.resp.ok
    /\ mem_raised = "LLMError"
    /\ max_insights >= 1
    /\ Len(insights) = max_insights

---------------------------------------------------------------------------
(* Properties of SQLChatAgent.handle_message_fallback *)

Mentions(text, tok) == \E i \in DOMAIN text : text[i] = tok

\* the step is a call of handle_message_fallback on agent a
FallbackStep(a) ==
    /\ sql_call'.op = "handle_message_fallback"
    /\ sql_call'.agent = a

\* r tells the agent to use the Done tool with its final answer or to go on
\* using tools
TaskCompletionInstruction(r) ==
    /\ r.kind = "str"
    /\ Mentions(r.text, DoneToolName)
    /\ Mentions(r.text, "with the content set to the answer or result")
    /\ Mentions(r.text, "otherwise, use one of the available tools to make progress")

\* r is the instruction of chat mode, about addressing the user
ChatAddressingInstruction(r) ==
    /\ r.kind = "str"
    /\ \/ Mentions(r.text, ForwardToolName)
       \/ Mentions(r.text, "Since you did not explicitly address the User, it is not clear whether")

\* C6: for a message of the LLM, not interactive and chat_mode false,
\* handle_message_fallback returns the task-completion instruction and never
\* the chat-addressing one, whatever use_schema_tools is.
C6_TaskModeInstruction ==
    [][\A a \in Agents :
          FallbackStep(a) /\ llm_responded[a] /\ ~interactive[a]
              /\ ~config[a].chat_mode
          => /\ TaskCompletionInstruction(sql_ret')
             /\ ~ChatAddressingInstruction(sql_ret')]_vars

C6_Witness ==
    /\ sql_call = [op |-> "handle_message_fallback", agent |-> "a1"]
    /\ llm_responded["a1"] /\ ~interactive["a1"]
    /\ ~config["a1"].chat_mode /\ config["a1"].use_schema_tools
    /\ sql_ret.kind = "str"

\* C7: for a message of the LLM while the agent is interactive,
\* handle_message_fallback returns ForwardTool(agent="User"), whatever
\* chat_mode and use_schema_tools are, and no instructional message.
C7_InteractiveForwardsToUser ==
    [][\A a \in Agents :
          FallbackStep(a) /\ llm_responded[a] /\ interactive[a]
          => /\ sql_ret' = ForwardTool("User")
             /\ sql_ret'.kind # "str"]_vars

C7_Witness ==
    /\ sql_call = [op |-> "handle_message_fallback", agent |-> "a1"]
    /\ llm_responded["a1"] /\ interactive["a1"]
    /\ config["a1"].chat_mode
    /\ sql_ret.kind = "ForwardTool"

\* C8 as stated: for a message of the LLM, not interactive and chat_mode
\* true, the returned instruction tells the agent to address the user with
\* the exact addressing token (the configured addressing prefix) or to
\* invoke a tool.
C8_MentionsAddressingPrefix ==
    [][\A a \in Agents :
          FallbackStep(a) /\ llm_responded[a] /\ ~interactive[a]
              /\ config[a].chat_mode
          => /\ sql_ret'.kind = "str"
             /\ Mentions(sql_ret'.text, config[a].addressing_prefix)]_vars

\* C8 as amended: in that case the returned instruction tells the agent to
\* use the forward tool to mark its message as the final response to the
\* user, or else to use a tool (run_query is named); it names neither the
\* addressing prefix nor the Done tool.
C8_ChatModeInstruction ==
    [][\A a \in Agents :
          FallbackStep(a) /\ llm_responded[a] /\ ~interactive[a]
              /\ config[a].chat_mode
          => /\ sql_ret'.kind = "str"
             /\ Mentions(sql_ret'.text, ForwardToolName)
             /\ Mentions(sql_ret'.text, RunQueryToolName)
             /\ ~Mentions(sql_ret'.text, config[a].addressing_prefix)
             /\ ~Mentions(sql_ret'.text, DoneToolName)]_vars

C8_Witness ==
    /\ sql_call = [op |-> "handle_message_fallback", agent |-> "a1"]
    /\ llm_responded["a1"] /\ ~interactive["a1"]
    /\ config["a1"].chat_mode
    /\ config["a1"].addressing_prefix = "@"
    /\ sql_ret.kind = "str"

\* C9: when the last of llm_response and user_response to run on the agent
\* was user_response, or neither has run, handle_message_fallback returns
\* None, whatever interactive and chat_mode are and whatever run_query calls
\* were made.
C9_NoDirectiveAfterUserTurn ==
    [][\A a \in Agents :
          FallbackStep(a) /\ last_turn[a] # "llm" => sql_ret' = NoneValue]_vars

C9_Witness ==
    /\ sql_call = [op |-> "handle_message_fallback", agent |-> "a1"]
    /\ last_turn["a1"] = "user"
    /\ Len(message_history["a1"]) >= 1
    /\ used_run_query["a1"]
    /\ interactive["a1"]
    /\ sql_ret = NoneValue

\* C10: a call of handle_message_fallback leaves llm_responded,
\* used_run_query, the configuration, the enabled tools and the message
\* history unchanged, in every branch.
C10_FallbackFrame ==
    [][(\E a \in Agents : FallbackStep(a))
         => UNCHANGED <<llm_responded, used_run_query, config, interactive,
                        enabled_tools, message_history>>]_vars

C10_Witness ==
    /\ sql_call = [op |-> "handle_message_fallback", agent |-> "a1"]
    /\ llm_responded["a1"]
    /\ used_run_query["a1"]
    /\ Len(message_history["a1"]) >= 1
    /\ sql_ret.kind = "str"

---------------------------------------------------------------------------
(* Properties of run_query, the turn flags and the task loop *)

\* the step is a call of run_query on agent a
RunQueryStep(a) ==
    /\ sql_call'.op = "run_query"
    /\ sql_call'.agent = a

C12_FlagsResetEachTurn ==
    /\ [](\A a \in Agents : used_run_query[a] => query_since_turn[a])
    /\ [][\A a \in Agents :
            /\ (sql_call'.op = "llm_response" /\ sql_call'.agent = a)
                 => llm_responded'[a] /\ ~used_run_query'[a]
            /\ (sql_call'.op = "user_response" /\ sql_call'.agent = a)
                 => ~llm_responded'[a] /\ ~used_run_query'[a]]_vars

C12_Witness ==
    /\ sql_call = [op |-> "llm_response", agent |-> "a1"]
    /\ db_outcome # "none"
    /\ llm_responded["a1"]
    /\ ~used_run_query["a1"]

C20_FlagsPerAgent ==
    [][\A a \in Agents :
          sql_call'.agent = a
          => \A b \in Agents \ {a} :
                /\ llm_responded'[b] = llm_responded[b]
                /\ used_run_query'[b] = used_run_query[b]]_vars

C20_Witness ==
    /\ llm_responded["a1"] /\ ~used_run_query["a1"]
    /\ ~llm_responded["a2"] /\ used_run_query["a2"]
    /\ last_turn["a1"] = "llm"
    /\ last_turn["a2"] = "user"

---------------------------------------------------------------------------
(* Properties of the delegation tree *)

\* the tasks in the sub-task list of t
Children(t) == {sub_tasks[t][i] : i \in 1..Len(sub_tasks[t])}

RECURSIVE DescendantsWithin(_, _)
DescendantsWithin(t, n) ==
    IF n = 0 THEN {}
    ELSE Children(t) \cup UNION {DescendantsWithin(c, n - 1) : c \in Children(t)}

\* the tasks below t, read off the sub-task lists
Descendants(t) == DescendantsWithin(t, Cardinality(Tasks))

\* every task is listed at most once, under its owner, and below no task
\* is the task itself
IsTree ==
    /\ \A t \in Tasks :
          Cardinality({pi \in Tasks \X (1..Cardinality(Tasks)) :
                          /\ pi[2] <= Len(sub_tasks[pi[1]])
                          /\ sub_tasks[pi[1]][pi[2]] = t}) <= 1
    /\ \A t \in Tasks : t \notin Descendants(t)
    /\ \A t, p \in Tasks : parent_task[t] = p <=> t \in Children(p)

Pos(order, u) == CHOOSE i \in 1..Len(order) : order[i] = u

\* order is the pre-order of the tree below t: t first, every task of the
\* tree once, a task before its sub-tasks, and the whole tree of a sub-task
\* before the next sub-task of the list
IsPreOrderOf(order, t) ==
    LET tree == {t} \cup Descendants(t)
    IN  /\ Len(order) = Cardinality(tree)
        /\ {order[i] : i \in 1..Len(order)} = tree
        /\ order[1] = t
        /\ \A p \in tree : \A c \in Children(p) : Pos(order, p) < Pos(order, c)
        /\ \A p \in tree : \A i, j \in 1..Len(sub_tasks[p]) :
              i < j => \A u \in {sub_tasks[p][i]} \cup Descendants(sub_tasks[p][i]) :
                          Pos(order, u) < Pos(order, sub_tasks[p][j])

\* C18: injecting callbacks on a task installs them on the agent of the task
\* and of every sub-task at any depth, in pre-order (a task before its
\* sub-tasks, sub-tasks in list order), and leaves no agent of the tree
\* without callbacks.
C18_InjectionPreOrder ==
    [][\A t \in Tasks :
          (tree_call'.op = "inject_callbacks" /\ tree_call'.parent = t)
          => /\ tree_call'.raised = "none"
             /\ IsPreOrderOf(inject_order', t)
             /\ ({t} \cup Descendants(t)) \subseteq injected'
             /\ injected' = injected \cup {t} \cup Descendants(t)]_vars

C18_Witness ==
    /\ tree_call.op = "inject_callbacks"
    /\ sub_tasks["root"] = <<"child1", "child2">>
    /\ sub_tasks["child1"] = <<"child3">>
    /\ inject_order = <<"root", "child1", "child3", "child2">>
    /\ injected = Tasks

---------------------------------------------------------------------------
(* Properties of the chainlit callbacks *)

\* the step is a call on agent a that resolved its nesting anchor
ResolvesAnchor(a) ==
    /\ cb_call'.agent = a
    /\ cb_call'.op \in {"start_llm_stream", "finish_llm_stream",
                        "show_llm_response", "show_agent_response",
                        "get_user_response"}
    /\ cb_raised' = "none"

\* the parent agent's last step when the call began, NoStep without a parent
ParentsLastStep(a) ==
    IF parent_agent[a] = NoAgent THEN NoStep ELSE last_step[parent_agent[a]]

RECURSIVE AncestorsFrom(_, _)
\* the agents met by following parent pointers from a, at most n of them
AncestorsFrom(a, n) ==
    IF n = 0 \/ parent_agent[a] = NoAgent THEN {}
    ELSE {parent_agent[a]} \cup AncestorsFrom(parent_agent[a], n - 1)

\* the ancestors of a beyond its parent
DistantAncestors(a) ==
    IF parent_agent[a] = NoAgent THEN {}
    ELSE AncestorsFrom(parent_agent[a], Cardinality(CbAgents))

\* C16 as stated: the anchor is the parent agent's current last step, None
\* exactly when there is no parent or the parent has no last step, and never
\* the agent's own last step nor that of a more distant ancestor.
C16_NeverOwnNorDistant ==
    [][\A a \in CbAgents :
          ResolvesAnchor(a)
          => /\ cb_anchor' = ParentsLastStep(a)
             /\ cb_anchor' # NoStep
                  => /\ cb_anchor' # last_step[a]
                     /\ \A g \in DistantAncestors(a) :
                           cb_anchor' # last_step[g]]_vars

\* C16, amended: the anchor is the parent agent's current last step, None
\* exactly when there is no parent or the parent has no last step, and never
\* the last step of an agent other than the parent: the agent's own or a
\* more distant ancestor's only where that agent is the parent itself.
C16_AnchorIsParentsLastStep ==
    [][\A a \in CbAgents :
          ResolvesAnchor(a)
          => /\ cb_anchor' = ParentsLastStep(a)
             /\ (cb_anchor' = NoStep)
                  <=> (parent_agent[a] = NoAgent
                         \/ last_step[parent_agent[a]] = NoStep)
             /\ cb_anchor' # NoStep
                  => /\ cb_anchor'.owner = parent_agent[a]
                     /\ \A g \in CbAgents \ {parent_agent[a]} :
                           cb_anchor' # last_step[g]]_vars

C16_Witness ==
    /\ cb_call.op = "get_user_response"
    /\ cb_call.agent = "a1"
    /\ parent_agent["a1"] = "a2"
    /\ parent_agent["a2"] = "a3"
    /\ \A a \in CbAgents : last_step[a] # NoStep
    /\ cb_anchor = last_step["a2"]

\* C17: resolving the nesting anchor terminates for every configuration of
\* parent pointers, cycles included: it follows the agent's own parent
\* pointer once, or not at all when there is none.
C17_AnchorResolutionOneHop ==
    /\ [](cb_hops <= 1)
    /\ [][\A a \in CbAgents :
            ResolvesAnchor(a)
            => cb_hops' = IF parent_agent[a] = NoAgent THEN 0 ELSE 1]_vars

C17_Witness ==
    /\ cb_call.op = "get_user_response"
    /\ cb_call.agent = "a1"
    /\ parent_agent["a1"] = "a2"
    /\ parent_agent["a2"] = "a1"
    /\ parent_agent["a3"] = "a3"
    /\ last_step["a2"] = NoStep
    /\ last_step["a1"] # NoStep
    /\ cb_anchor = NoStep
    /\ cb_hops = 1

\* C19: when no user response arrives within the timeout, ask_user_step and
\* so get_user_response return "x", the value of the explicit exit choice,
\* and never the empty "continue" value.
C19_TimeoutIsExit ==
    [][\A a \in CbAgents :
          (cb_call'.op = "get_user_response" /\ cb_call'.agent = a
              /\ cb_call'.res = NoResponse)
          => /\ cb_ret' = ExitValue
             /\ cb_ret' # ContinueValue
             /\ cb_raised' = "none"]_vars

C19_Witness ==
    /\ cb_call.op = "get_user_response"
    /\ cb_call.res = NoResponse
    /\ cb_call.shown = <<"question", "timed_out">>
    /\ cb_ret = ExitValue
    /\ last_step["a1"] # NoStep

---------------------------------------------------------------------------
(* Further properties of ConversationMemory *)

\* C24: for max_insights >= 1 a successful add_insight takes the buffer
\* from size n to min(n + 1, max_insights): it grows by one below capacity,
\* and at capacity exactly the oldest entry is evicted; the new insight is
\* always the last entry.
C24_SizeStepAndEviction ==
    [][(mem_call'.op = "add_insight" /\ mem_call'.resp.ok /\ max_insights >= 1)
       => LET new == [agent |-> mem_call'.agent,
                      point |-> mem_call'.resp.content]
              n == Len(insights)
          IN  /\ n <= max_insights
              /\ Len(insights') = Min(n + 1, max_insights)
              /\ Len(insights') >= 1
              /\ insights'[Len(insights')] = new
              /\ n < max_insights => insights' = Append(insights, new)
              /\ n = max_insights
                   => insights' = Append(SubSeq(insights, 2, n), new)]_vars

C24_Witness ==
    /\ mem_call.op = "add_insight"
    /\ mem_call.resp.ok
    /\ max_insights = 2
    /\ Len(added) = 3
    /\ insights = SubSeq(added, 2, 3)
    /\ added[1] # added[3]

---------------------------------------------------------------------------
(* Further properties of SQLChatAgent *)

\* text ends with the phrases of tail
EndsWith(text, tail) ==
    /\ Len(text) >= Len(tail)
    /\ SubSeq(text, Len(text) - Len(tail) + 1, Len(text)) = tail

\* C26: after construction RunQueryTool and ForwardTool are enabled, DoneTool
\* iff chat_mode is false, the three schema tools iff use_schema_tools is
\* true; the system message carries the addressing instruction iff chat_mode
\* is true and the done instruction iff it is false.
C26_ToolsFollowConfig ==
    \A a \in Agents :
        /\ {RunQueryToolName, ForwardToolName} \subseteq enabled_tools[a]
        /\ (DoneToolName \in enabled_tools[a]) <=> ~config[a].chat_mode
        /\ \A t \in {GetTableNamesToolName, GetTableSchemaToolName,
                     GetColumnDescriptionsToolName} :
              (t \in enabled_tools[a]) <=> config[a].use_schema_tools
        /\ EndsWith(config[a].system_message,
                    ADDRESSING_INSTRUCTION(config[a].addressing_prefix))
             <=> config[a].chat_mode
        /\ EndsWith(config[a].system_message, DONE_INSTRUCTION)
             <=> ~config[a].chat_mode
        /\ Mentions(config[a].system_message,
                    "You MUST use the EXACT syntax") <=> config[a].chat_mode
        /\ Mentions(config[a].system_message,
                    "with content set to the answer or result")
             <=> ~config[a].chat_mode

C26_Witness ==
    /\ config["a1"].chat_mode
    /\ config["a1"].use_schema_tools
    /\ enabled_tools["a1"] = {RunQueryToolName, ForwardToolName,
                              GetTableNamesToolName, GetTableSchemaToolName,
                              GetColumnDescriptionsToolName}
    /\ ~config["a2"].chat_mode
    /\ DoneToolName \in enabled_tools["a2"]
    /\ sql_call.op = "run_query"

\* number of times op occurs in a session log
Occurrences(log, op) == Cardinality({i \in 1..Len(log) : log[i] = op})

\* C27: every run_query closes its session exactly once, as the last thing
\* it does with it, on the success, non-SELECT and error paths; when execute
\* or commit raises, the session is rolled back before it is closed and no
\* commit follows the rollback.
C27_SessionReleased ==
    [][\A a \in Agents :
          RunQueryStep(a)
          => /\ Occurrences(session_log', "close") = 1
             /\ Len(session_log') >= 1
             /\ session_log'[Len(session_log')] = "close"
             /\ db_outcome' \in {"execute_error", "commit_error", "fetch_error"}
                  => /\ Occurrences(session_log', "rollback") = 1
                     /\ \A i, j \in 1..Len(session_log') :
                           (session_log'[i] = "rollback"
                              /\ session_log'[j] = "commit") => j < i
                     /\ \A i, j \in 1..Len(session_log') :
                           (session_log'[i] = "rollback"
                              /\ session_log'[j] = "close") => i < j
             /\ db_outcome' \in {"rows", "no_rows", "non_select"}
                  => Occurrences(session_log', "rollback") = 0]_vars

C27_Witness ==
    /\ sql_call = [op |-> "run_query", agent |-> "a1"]
    /\ db_outcome = "commit_error"
    /\ session_log = <<"execute", "commit", "rollback", "close">>

---------------------------------------------------------------------------
(* Further properties of the chainlit callbacks *)

\* C28: an agent's last_step never refers to a step that has been removed
\* from the UI: after any sequence of start_llm_stream, cancel_llm_stream,
\* finish_llm_stream, show_llm_response and show_agent_response, last_step
\* is None or a step that is still displayed.
C28_LastStepDisplayed ==
    \A a \in CbAgents :
        last_step[a] # NoStep => last_step[a] \in displayed

\* C29: ask_user_step restores config.ui.hide_cot: on every return path
\* (answer, suppressed answer, timeout) it has at return the value it had
\* when the call started.
C29_HideCotRestored ==
    [][cb_call'.op = "get_user_response" => hide_cot' = hide_cot]_vars

---------------------------------------------------------------------------
(* Properties of the verodat conversation *)

\* C21: no failure is swallowed by run_conversation.  Once a collaborator
\* (the CEO call, the ValueProp call, add_insight, follow-up generation) has
\* raised, run_conversation and main have raised that same error, the loop
\* has stopped in the round of the failure, and from then on no round is
\* started, no step completes and no insight is added; the failing step
\* itself adds no insight either.
C21_NoFailureSwallowed ==
    /\ [](conv_error # "none" => /\ conv_pc = "failed"
                                 /\ conv_raised = conv_error
                                 /\ main_raised = conv_error)
    /\ [][conv_error # "none"
          => UNCHANGED <<insights, added, conv_round, conv_events>>]_vars
    /\ [][conv_call'.raised # "none"
          => /\ UNCHANGED <<insights, added, conv_round, conv_events>>
             /\ conv_raised' = conv_call'.raised]_vars

\* the ValueProp insight of the second round fails after three insights
\* were stored
C21_Witness ==
    /\ conv_pc = "failed"
    /\ conv_round = 1
    /\ conv_call.op = "add_insight"
    /\ conv_raised = "LLMError"
    /\ main_raised = "LLMError"
    /\ Len(added) = 3
    /\ Len(insights) = 3

RoundEvents(i, with_follow_up) ==
    [k \in 1..(IF with_follow_up THEN 6 ELSE 5) |->
        [round |-> i,
         step  |-> <<"get_context", "ceo", "add_ceo", "vp", "add_vp",
                     "follow_up">>[k]]]

\* the steps of a whole conversation: a follow-up question closes the first
\* and the second round, never the third
ExpectedEvents ==
    RoundEvents(0, TRUE) \o RoundEvents(1, TRUE) \o RoundEvents(2, FALSE)

InsightEvents ==
    {k \in 1..Len(conv_events) : conv_events[k].step \in {"add_ceo", "add_vp"}}

\* C25: run_conversation executes strictly one step after another.  The
\* completed steps are always an initial part of the fixed order (context
\* read, CEO answer, CEO insight, ValueProp answer, ValueProp insight,
\* follow-up in the first two rounds only), the statement about to run is
\* the one that follows the last completed step, every insight step has
\* stored exactly one insight, and a conversation that ends has run the
\* whole order.
C25_StrictSequence ==
    /\ Len(conv_events) <= Len(ExpectedEvents)
    /\ conv_events = SubSeq(ExpectedEvents, 1, Len(conv_events))
    /\ conv_pc \in {"get_context", "ceo", "add_ceo", "vp", "add_vp",
                    "follow_up"}
       => /\ Len(conv_events) < Len(ExpectedEvents)
          /\ ExpectedEvents[Len(conv_events) + 1]
               = [round |-> conv_round, step |-> conv_pc]
    /\ Cardinality(InsightEvents) = Len(added)
    /\ conv_pc = "done" => conv_events = ExpectedEvents

C25_Witness ==
    /\ conv_pc = "done"
    /\ conv_round = 2
    /\ conv_events = ExpectedEvents
    /\ Len(added) = 6
    /\ Len(insights) = 5

---------------------------------------------------------------------------
(* Properties of the Qdrant vector store *)

\* C23: create_collection replaces an existing collection only if replace
\* is True.  Called with replace = False on a collection that exists and
\* holds at least one point, it leaves the number of points unchanged,
\* whatever the status of the collection; and whenever it recreates the
\* collection and returns, the collection is empty (vectors_count = 0) and
\* GREEN.
C23_ReplaceOnlyIfAsked ==
    [][qd_call'.op = "create_collection"
       => LET name == qd_call'.name
          IN  /\ (/\ ~qd_call'.replace
                  /\ Exists(collections, name)
                  /\ collections[name].points_count >= 1)
                 => collections'[name] = collections[name]
              /\ (qd_call'.recreated /\ qd_raised' = "none")
                 => /\ vectors_count(collections'[name]) = 0
                    /\ collections'[name].status = "green"]_vars

\* collections that exist and hold no point
EmptyCollections(colls) ==
    {n \in CollNames : Exists(colls, n) /\ colls[n].points_count = 0}

\* C30: clear_empty_collections deletes every collection that holds zero
\* points, leaves every other collection as it was, and returns the number
\* of collections that were empty before the call, so that no empty
\* collection remains.
C30_ClearsEveryEmpty ==
    [][qd_call'.op = "clear_empty_collections"
       => /\ \A n \in EmptyCollections(collections) : ~Exists(collections', n)
          /\ \A n \in CollNames \ EmptyCollections(collections) :
                collections'[n] = collections[n]
          /\ EmptyCollections(collections') = {}
          /\ qd_ret'.n = Cardinality(EmptyCollections(collections))]_vars

===========================================================================
